---- MODULE Spec2Model ----
(***************************************************************************)
(* Model of the two sprite scripts of the repository:                      *)
(*   getsprites.py     (the Extractor)  sheet -> sprites_extracted/        *)
(*   resizesprites.py  (the Normalizer) sprites_extracted/ ->              *)
(*                                      sprites_centered/                  *)
(* The file system is a function from paths <<directory, name>> to file    *)
(* contents.  File names are sequences of one-character strings so that    *)
(* str.endswith and the {i:02d} formatting are computed, not assumed.      *)
(* An image is a rectangle of pixels; the sheets considered hold uniform   *)
(* rectangular blobs, at fixed pairwise non-touching places (SlotBox), on  *)
(* a zero background, so every crop of a blob is a uniform image.          *)
(***************************************************************************)
EXTENDS Integers, Sequences, FiniteSets, TLC

(* ----------------------------- bounds ---------------------------------- *)
\* number of blob places of a sheet that may hold ink
NumSlots == 3
\* number of script runs (Extractor or Normalizer) in one behaviour
MaxRuns == 2
\* largest width / height of the sprite of the geometry specification
MaxDim == 132
\* largest contour index whose file name is compared with the others
MaxIndex == 120

(* --------------------------- path strings ------------------------------ *)
\* getsprites.py:7
input_image_path == <<"s","p","r","i","t","e","_","s","h","e","e","t",".","p","n","g">>
\* getsprites.py:8 and resizesprites.py:6
input_dir == "sprites_extracted"
\* resizesprites.py:7
output_dir == "sprites_centered"
\* the working directory, which holds the sheet
cwd == "."

\* os.path.join(dir, file)
Join(dir, file) == <<dir, file>>

\* str.endswith
EndsWith(s, suffix) ==
    /\ Len(s) >= Len(suffix)
    /\ SubSeq(s, Len(s) - Len(suffix) + 1, Len(s)) = suffix

\* resizesprites.py:15  file.endswith(".png")
IsPng(file) == EndsWith(file, <<".","p","n","g">>)

DigitChar == <<"0","1","2","3","4","5","6","7","8","9">>

\* decimal digits of a natural number, most significant first
RECURSIVE Digits(_)
Digits(n) == IF n < 10 THEN <<DigitChar[n + 1]>>
             ELSE Digits(n \div 10) \o <<DigitChar[(n % 10) + 1]>>

\* the format specification 02d: zero padded to a minimum width of two
Format02d(i) == IF Len(Digits(i)) < 2 THEN <<"0">> \o Digits(i) ELSE Digits(i)

\* getsprites.py:37  f"sprite_{i:02d}.png"
SpriteName(i) == <<"s","p","r","i","t","e","_">> \o Format02d(i) \o <<".","p","n","g">>

(* ------------------------------ pixels --------------------------------- *)
Pixel(b, g, r, a) == [b |-> b, g |-> g, r |-> r, a |-> a]

Transparent == Pixel(0, 0, 0, 0)
Opaque      == Pixel(255, 255, 255, 255)
\* alpha 1, luminance 1
Faint       == Pixel(0, 2, 0, 1)
\* alpha 2, luminance 2
Dim         == Pixel(0, 3, 0, 2)
\* opaque, luminance 0 although not black
DarkBlue    == Pixel(1, 0, 0, 255)

Palette == {Transparent, Opaque, Faint, Dim, DarkBlue}

\* cv2.cvtColor(image, cv2.COLOR_BGR2GRAY) on 8-bit pixels:
\* Y = 0.114 B + 0.587 G + 0.299 R in 14-bit fixed point, rounded
Gray(p) == (p.b * 1868 + p.g * 9617 + p.r * 4899 + 8192) \div 16384

(* ------------------------------ sheets --------------------------------- *)
Slots == 1..NumSlots

\* bounding boxes <<x, y, w, h>> of the places of a sheet that may hold a blob
SlotBox == << <<0, 0, 64, 64>>, <<70, 0, 12, 9>>, <<90, 0, 10, 10>>,
              <<70, 20, 5, 5>>, <<90, 20, 9, 12>>, <<70, 40, 11, 30>> >>

SheetW == 128
SheetH == 72

\* the inks of the sheets: every place empty or opaque, or one place holding
\* any pixel of the palette and the others empty
SheetInks ==
    [Slots -> {Transparent, Opaque}]
    \cup {[s \in Slots |-> IF s = t THEN p ELSE Transparent] : t \in Slots, p \in Palette}

\* a sheet: its size, its mode and the pixel (ink) of each blob place
SheetImage(mode, ink) ==
    [ok |-> TRUE, w |-> SheetW, h |-> SheetH, mode |-> mode, ink |-> ink]

\* a file that no image library decodes
NotImage == [ok |-> FALSE, w |-> 0, h |-> 0, mode |-> "none", px |-> Transparent]

\* sprite files hold a uniform image
SpriteImage(w, h, mode, p) == [ok |-> TRUE, w |-> w, h |-> h, mode |-> mode, px |-> p]

\* number of channels of the array cv2.imread(path, IMREAD_UNCHANGED) returns
\* for a PNG of the given mode; 1 stands for the 2-D array of a grayscale file
Channels(mode) == CASE mode = "RGBA" -> 4
                    [] mode = "RGB"  -> 3
                    [] OTHER         -> 1

\* every ordering of a finite set, as a sequence without repetition
Perms(S) == {q \in [1..Cardinality(S) -> S] : \A i, j \in DOMAIN q : i # j => q[i] # q[j]}

\* a write that first empties the directory of the path
WriteFileFresh(f, path, content) ==
    [p \in {q \in DOMAIN f : q[1] # path[1]} \cup {path} |->
        IF p = path THEN content ELSE f[p]]

\* a file system with one more file written (an existing file is overwritten)
WriteFile(f, path, content) ==
    [p \in (DOMAIN f) \cup {path} |-> IF p = path THEN content ELSE f[p]]

\* the names os.listdir(dir) returns
Entries(f, dir) == {p[2] : p \in {q \in DOMAIN f : q[1] = dir}}

\* the files of one directory, by name
DirState(f, dir) == [n \in Entries(f, dir) |-> f[Join(dir, n)]]

(* ============================ getsprites.py ============================ *)
\* getsprites.py:23  threshold and maximum value of cv2.threshold
ThreshValue == 1
MaxVal == 255
\* getsprites.py:34  smallest accepted width and height
MinSize == 10

\* the regions of a sheet: its blob places, and 0 for the background
Regions == {0} \cup Slots

\* the pixel of a region; the background is zero in every channel
RegionPixel(img, s) == IF s = 0 THEN Transparent ELSE img.ink[s]

\* a mask that ignores the 4th channel
GrayMask(img) == [s \in Regions |-> Gray(RegionPixel(img, s))]

\* getsprites.py:17-20  the mask: the 4th channel, else the grayscale conversion
VisibilityMask(img) ==
    [s \in Regions |-> IF Channels(img.mode) = 4 THEN RegionPixel(img, s).a
                       ELSE Gray(RegionPixel(img, s))]

\* cv2.threshold(src, thresh, maxval, cv2.THRESH_BINARY) on one value:
\* maxval if src > thresh, else 0
ThresholdBinary(v, thresh, maxval) == IF v > thresh THEN maxval ELSE 0

\* getsprites.py:23
Threshold(mask) == [s \in DOMAIN mask |-> ThresholdBinary(mask[s], ThreshValue, MaxVal)]

\* getsprites.py:26  cv2.findContours(thresh, RETR_EXTERNAL, CHAIN_APPROX_SIMPLE):
\* one contour for each connected region of non-zero pixels; the blob places do
\* not touch, so each non-zero place is one region.  The order of the contours
\* is the library's: any order.  A contour is named by its place.
FindContours(th) == Perms({s \in Slots : th[s] # 0})

\* getsprites.py:33  cv2.boundingRect(cnt)
BoundingRect(cnt) == SlotBox[cnt]

\* a filter that rejects only boxes small in both directions
TooSmallBoth(w, h) == w < MinSize /\ h < MinSize

\* getsprites.py:34  the noise filter
TooSmall(w, h) == w < MinSize \/ h < MinSize

\* the pixel of an image at a point
PixelAt(img, x, y) ==
    LET hit == {s \in Slots : /\ SlotBox[s][1] <= x /\ x < SlotBox[s][1] + SlotBox[s][3]
                              /\ SlotBox[s][2] <= y /\ y < SlotBox[s][2] + SlotBox[s][4]}
    IN  IF hit = {} THEN Transparent ELSE img.ink[CHOOSE s \in hit : TRUE]

\* getsprites.py:36  pil_image.crop((left, upper, right, lower))
Crop(img, left, upper, right, lower) ==
    SpriteImage(right - left, lower - upper, img.mode, PixelAt(img, left, upper))

\* a summary that counts the saved sprites only
SavedCount(cs) == Cardinality({i \in 1..Len(cs) : SlotBox[cs[i]][3] >= MinSize
                                                   /\ SlotBox[cs[i]][4] >= MinSize})

\* getsprites.py:39  the count of the summary line
SummaryCount(cs) == Len(cs)

(* =========================== resizesprites.py ========================== *)
\* resizesprites.py:22  the divisor of the 25% downscale
ScaleDivisor == 4
\* resizesprites.py:10  the default base of next_multiple
Base == 32

Max(a, b) == IF a >= b THEN a ELSE b

\* math.ceil(n / base) for naturals
CeilDiv(n, base) == IF n % base = 0 THEN n \div base ELSE (n \div base) + 1

\* a rounding that pads a multiple of the base as well
next_multiple_strict(n) == Base * ((n \div Base) + 1)

\* resizesprites.py:10-11
next_multiple(n) == Base * CeilDiv(n, Base)

\* resizesprites.py:22
new_size(w, h) == <<Max(1, w \div ScaleDivisor), Max(1, h \div ScaleDivisor)>>

\* a centering that rounds the half difference up
offset_up(canvas_dim, resized_dim) == (canvas_dim - resized_dim + 1) \div 2

\* resizesprites.py:33-34
offset(canvas_dim, resized_dim) == (canvas_dim - resized_dim) \div 2

\* Pillow's DIV255 of a product: the rounded division by 255
Div255(a) == (((a + 128) \div 256) + a + 128) \div 256

\* Pillow's paste through an RGBA mask onto a transparent canvas: every band
\* of the pasted pixel is blended with 0 by the mask's alpha
PasteBlend(p) == Pixel(Div255(p.b * p.a), Div255(p.g * p.a), Div255(p.r * p.a),
                       Div255(p.a * p.a))

\* Image.paste(im, box, mask) takes a mask of mode 1, L, LA, RGBA or RGBa and
\* raises ValueError ("bad transparency mask") for any other
MaskAccepted(mode) == mode \in {"1", "L", "LA", "RGBA", "RGBa"}

\* resizesprites.py:22-37  the canvas saved for one decoded sprite
Normalize(sprite) ==
    LET size == new_size(sprite.w, sprite.h)
        canvas_width  == next_multiple(size[1])
        canvas_height == next_multiple(size[2])
        offset_x == offset(canvas_width, size[1])
        offset_y == offset(canvas_height, size[2])
    IN  [ok |-> TRUE, w |-> canvas_width, h |-> canvas_height, mode |-> "RGBA",
         px |-> PasteBlend(sprite.px),
         box |-> <<offset_x, offset_y, size[1], size[2]>>]

(* =============================== state ================================= *)
VARIABLES
    fs,        \* the files: path <<directory, name>> -> content
    dirs,      \* the directories that exist
    runs,      \* number of script runs started
    epc,       \* Extractor: "idle", "loop", "done" or "failed"
    alpha,     \* Extractor: the mask, by region
    thresh,    \* Extractor: the binarized mask, by region
    contours,  \* Extractor: the contour list
    ei,        \* Extractor: the loop variable i (0-based)
    ewritten,  \* Extractor: the names saved by the current run
    ereport,   \* Extractor: the count of the summary line, -1 before it is printed
    npc,       \* Normalizer: "idle", "loop", "done" or "failed"
    nerr,      \* Normalizer: the exception that ended the run, or "none"
    listing,   \* Normalizer: the list os.listdir returned
    ni,        \* Normalizer: position in listing of the next entry (1-based)
    nwritten,  \* Normalizer: the names saved by the current run
    nmsg,      \* Normalizer: the completion line has been printed
    runHist    \* the finished Normalizer runs: input and output directory states

vars == <<fs, dirs, runs, epc, alpha, thresh, contours, ei, ewritten, ereport,
          npc, nerr, listing, ni, nwritten, nmsg, runHist>>

evars == <<epc, alpha, thresh, contours, ei, ewritten, ereport>>
nvars == <<npc, nerr, listing, ni, nwritten, nmsg, runHist>>

(* ------------------------- initial file systems ------------------------ *)
SheetPath == Join(cwd, input_image_path)

\* the sheet file: absent, not an image, grayscale, or RGB / RGBA with blobs
SheetFiles ==
    {<<>>} \cup { (SheetPath :> c) : c \in
        {NotImage, SheetImage("L", [s \in Slots |-> Opaque])}
        \cup {SheetImage(m, ink) : m \in {"RGB", "RGBA"}, ink \in SheetInks} }

\* a canvas left in the output directory by something earlier
OldCanvas == [ok |-> TRUE, w |-> 32, h |-> 32, mode |-> "RGBA", px |-> Opaque,
              box |-> <<0, 0, 32, 32>>]

\* what the two directories hold at the start: nothing (the directories do
\* not exist), foreign files in sprites_extracted/ only, or a sprite of an
\* earlier run and an undecodable file, with canvases of an earlier run
InitialFiles ==
    { <<>>,
      (Join(input_dir, <<"a",".","p","n","g">>) :> SpriteImage(127, 3, "RGBA", Dim))
         @@ (Join(input_dir, <<"n",".","t","x","t">>) :> NotImage),
      (Join(input_dir, SpriteName(0)) :> SpriteImage(20, 20, "RGBA", Opaque))
         @@ (Join(input_dir, <<"b",".","p","n","g">>) :> NotImage)
         @@ (Join(output_dir, SpriteName(0)) :> OldCanvas)
         @@ (Join(output_dir, <<"k",".","p","n","g">>) :> OldCanvas) }

\* no script is running or has run
Idle ==
    /\ runs = 0
    /\ epc = "idle" /\ alpha = <<>> /\ thresh = <<>> /\ contours = <<>>
    /\ ei = 0 /\ ewritten = {} /\ ereport = -1
    /\ npc = "idle" /\ nerr = "none" /\ listing = <<>> /\ ni = 1
    /\ nwritten = {} /\ nmsg = FALSE /\ runHist = <<>>

\* the scripts run one after the other, each in a process of its own: when a
\* script starts, the process of the script before it is gone and only the
\* file system is left of it
ExtractorGone ==
    /\ epc' = "idle" /\ alpha' = <<>> /\ thresh' = <<>> /\ contours' = <<>>
    /\ ei' = 0 /\ ewritten' = {} /\ ereport' = -1

NormalizerGone ==
    /\ npc' = "idle" /\ nerr' = "none" /\ listing' = <<>> /\ ni' = 1
    /\ nwritten' = {} /\ nmsg' = FALSE /\ runHist' = runHist

Init ==
    /\ \E sf \in SheetFiles, df \in InitialFiles :
          /\ fs = sf @@ df
          /\ dirs = {cwd} \cup {p[1] : p \in DOMAIN df}
    /\ Idle

(* ------------------------------ Extractor ------------------------------ *)
\* a script starts when no script is running and the run budget allows
CanStart == epc # "loop" /\ npc # "loop" /\ runs < MaxRuns

\* cv2.imread returns an array for a file that exists and decodes, else None
Readable(path) == path \in DOMAIN fs /\ fs[path].ok

\* getsprites.py:14-17  image.shape[2] exists: imread gave a 3-D array
HasShape2 == Readable(SheetPath) /\ Channels(fs[SheetPath].mode) >= 3

\* getsprites.py:11-17  the run dies on image.shape: imread returned None
\* (AttributeError), or a 2-D array with no shape[2] (IndexError)
ExtractFail ==
    /\ CanStart
    /\ ~HasShape2
    /\ runs' = runs + 1
    /\ dirs' = dirs \cup {input_dir}
    /\ epc' = "failed"
    /\ alpha' = <<>> /\ thresh' = <<>> /\ contours' = <<>>
    /\ ei' = 0 /\ ewritten' = {} /\ ereport' = -1
    /\ NormalizerGone
    /\ fs' = fs

\* getsprites.py:11-29  makedirs, imread, mask, threshold, findContours
ExtractBegin ==
    /\ CanStart
    /\ HasShape2
    /\ runs' = runs + 1
    /\ dirs' = dirs \cup {input_dir}
    /\ alpha' = VisibilityMask(fs[SheetPath])
    /\ thresh' = Threshold(alpha')
    /\ contours' \in FindContours(thresh')
    /\ epc' = "loop"
    /\ ei' = 0 /\ ewritten' = {} /\ ereport' = -1
    /\ NormalizerGone
    /\ fs' = fs

\* getsprites.py:32-35  a bounding box below the minimum size: continue
ExtractSkip ==
    /\ epc = "loop" /\ ei < Len(contours)
    /\ LET r == BoundingRect(contours[ei + 1])
       IN  TooSmall(r[3], r[4])
    /\ ei' = ei + 1
    /\ UNCHANGED <<fs, dirs, runs, epc, alpha, thresh, contours, ewritten, ereport, nvars>>

\* getsprites.py:32-37  crop the bounding box and save it under the index
ExtractSave ==
    /\ epc = "loop" /\ ei < Len(contours)
    /\ LET r == BoundingRect(contours[ei + 1])
           x == r[1]  y == r[2]  w == r[3]  h == r[4]
       IN  /\ ~TooSmall(w, h)
           /\ fs' = WriteFile(fs, Join(input_dir, SpriteName(ei)),
                              Crop(fs[SheetPath], x, y, x + w, y + h))
    /\ ewritten' = ewritten \cup {SpriteName(ei)}
    /\ ei' = ei + 1
    /\ UNCHANGED <<dirs, runs, epc, alpha, thresh, contours, ereport, nvars>>

\* getsprites.py:39  the summary line
ExtractFinish ==
    /\ epc = "loop" /\ ei = Len(contours)
    /\ ereport' = SummaryCount(contours)
    /\ epc' = "done"
    /\ UNCHANGED <<fs, dirs, runs, alpha, thresh, contours, ei, ewritten, nvars>>

(* ------------------------------ Normalizer ----------------------------- *)
\* what a finished run read and left: the input directory, the output
\* directory after the run, and whether the run reached its last line
RunRecord(ok) ==
    [input  |-> [exists |-> input_dir \in dirs, files |-> DirState(fs, input_dir)],
     output |-> DirState(fs', output_dir),
     ok     |-> ok]

\* resizesprites.py:8-14  os.listdir of a missing directory: FileNotFoundError
NormalizeNoDir ==
    /\ CanStart
    /\ input_dir \notin dirs
    /\ runs' = runs + 1
    /\ dirs' = dirs \cup {output_dir}
    /\ npc' = "failed" /\ nerr' = "FileNotFoundError"
    /\ listing' = <<>> /\ ni' = 1 /\ nwritten' = {} /\ nmsg' = FALSE
    /\ fs' = fs
    /\ runHist' = Append(runHist, RunRecord(FALSE))
    /\ ExtractorGone

\* resizesprites.py:8-14  makedirs, then the list of the input directory, in
\* the arbitrary order os.listdir gives
NormalizeBegin ==
    /\ CanStart
    /\ input_dir \in dirs
    /\ runs' = runs + 1
    /\ dirs' = dirs \cup {output_dir}
    /\ listing' \in Perms(Entries(fs, input_dir))
    /\ npc' = "loop" /\ nerr' = "none"
    /\ ni' = 1 /\ nwritten' = {} /\ nmsg' = FALSE
    /\ ExtractorGone
    /\ UNCHANGED <<fs, runHist>>

\* resizesprites.py:15-16  an entry that does not end with ".png": continue
NormalizeSkip ==
    /\ npc = "loop" /\ ni <= Len(listing)
    /\ ~IsPng(listing[ni])
    /\ ni' = ni + 1
    /\ UNCHANGED <<fs, dirs, runs, npc, nerr, listing, nwritten, nmsg, runHist, evars>>

\* a loop that isolates the failure of one file and goes on to the next
NormalizeIsolate ==
    /\ npc = "loop" /\ ni <= Len(listing)
    /\ IsPng(listing[ni])
    /\ LET sprite == fs[Join(input_dir, listing[ni])]
       IN  ~(sprite.ok /\ MaskAccepted(sprite.mode))
    /\ ni' = ni + 1
    /\ UNCHANGED <<fs, dirs, runs, npc, nerr, listing, nwritten, nmsg, runHist, evars>>

\* resizesprites.py:19-37  Image.open / resize cannot decode the file, or
\* paste rejects the sprite as its own mask: the exception ends the script
NormalizeAbort ==
    /\ npc = "loop" /\ ni <= Len(listing)
    /\ IsPng(listing[ni])
    /\ LET sprite == fs[Join(input_dir, listing[ni])]
       IN  /\ ~(sprite.ok /\ MaskAccepted(sprite.mode))
           /\ nerr' = IF ~sprite.ok THEN "UnidentifiedImageError" ELSE "ValueError"
    /\ npc' = "failed"
    /\ fs' = fs
    /\ runHist' = Append(runHist, RunRecord(FALSE))
    /\ UNCHANGED <<dirs, runs, listing, ni, nwritten, nmsg, evars>>

\* a save into the directory the sprite was read from
InPlacePath(file) == Join(input_dir, file)

\* a save that never overwrites: a taken name gets a suffix
UniquePath(file) ==
    IF Join(output_dir, file) \in DOMAIN fs THEN Join(output_dir, file \o <<"~">>)
    ELSE Join(output_dir, file)

\* resizesprites.py:40  os.path.join(output_dir, file)
OutputPath(file) == Join(output_dir, file)

\* resizesprites.py:19-40  open, resize, canvas, paste, save under the same name
NormalizeSave ==
    /\ npc = "loop" /\ ni <= Len(listing)
    /\ IsPng(listing[ni])
    /\ LET sprite == fs[Join(input_dir, listing[ni])]
       IN  /\ sprite.ok /\ MaskAccepted(sprite.mode)
           /\ fs' = WriteFile(fs, OutputPath(listing[ni]), Normalize(sprite))
    /\ nwritten' = nwritten \cup {listing[ni]}
    /\ ni' = ni + 1
    /\ UNCHANGED <<dirs, runs, npc, nerr, listing, nmsg, runHist, evars>>

\* resizesprites.py:42  the completion line, after the last entry
NormalizeFinish ==
    /\ npc = "loop" /\ ni > Len(listing)
    /\ nmsg' = TRUE
    /\ npc' = "done"
    /\ fs' = fs
    /\ runHist' = Append(runHist, RunRecord(TRUE))
    /\ UNCHANGED <<dirs, runs, nerr, listing, ni, nwritten, evars>>

Next ==
    \/ ExtractFail
    \/ ExtractBegin
    \/ ExtractSkip
    \/ ExtractSave
    \/ ExtractFinish
    \/ NormalizeNoDir
    \/ NormalizeBegin
    \/ NormalizeSkip
    \/ NormalizeAbort
    \/ NormalizeSave
    \/ NormalizeFinish

Spec == Init /\ [][Next]_vars

(* ----------------------- the geometry specification -------------------- *)
\* one decodable RGBA sprite of every width and height up to MaxDim
InitGeom ==
    /\ \E w \in 1..MaxDim, h \in 1..MaxDim :
          fs = (Join(input_dir, <<"h",".","p","n","g">>) :> SpriteImage(w, h, "RGBA", Opaque))
    /\ dirs = {cwd, input_dir}
    /\ Idle

NextGeom ==
    \/ NormalizeBegin
    \/ NormalizeSave
    \/ NormalizeFinish

SpecGeom == InitGeom /\ [][NextGeom]_vars

(* =============================== claims ================================ *)
\* the sheet the current Extractor run loaded
Sheet == fs[SheetPath]

\* the Extractor has loaded the sheet and built its contour list
Extracting == epc \in {"loop", "done"}

\* C1 (as stated): every region of the mask is marked visible (255) exactly
\* when its mask value is > 0, so that value 1 is visible and only 0 is not.
C1_VisibleIffPositive ==
    Extracting =>
        \A s \in DOMAIN thresh :
            /\ thresh[s] \in {0, 255}
            /\ thresh[s] = 255 <=> alpha[s] > 0

\* the file names of different contour indices up to MaxIndex differ
NamesDistinct ==
    \A i, j \in 0..MaxIndex : i # j => SpriteName(i) # SpriteName(j)

\* C2: contour i (0-based) of the full list, with bounding box (x, y, w, h),
\* has the file sprite_{i:02d}.png written, holding the w x h crop of the
\* sheet at (x, y), exactly when w >= 10 and h >= 10; a skipped contour
\* writes nothing and keeps its index, and no other index has its file name.
C2_OutputSet ==
    Extracting =>
        /\ \A i \in 0..(ei - 1) :
              LET r == SlotBox[contours[i + 1]]
                  path == <<"sprites_extracted", SpriteName(i)>>
              IN  /\ SpriteName(i) \in ewritten <=> (r[3] >= 10 /\ r[4] >= 10)
                  /\ SpriteName(i) \in ewritten =>
                        /\ path \in DOMAIN fs
                        /\ fs[path] = [ok |-> TRUE, w |-> r[3], h |-> r[4],
                                       mode |-> Sheet.mode,
                                       px |-> Sheet.ink[contours[i + 1]]]
        /\ NamesDistinct
        /\ ewritten \subseteq {SpriteName(i) : i \in 0..(ei - 1)}

\* C2 witness: a finished run in which a skipped contour precedes a saved one,
\* which kept its own index
C2_Witness ==
    /\ epc = "done"
    /\ \E i, j \in 0..(Len(contours) - 1) :
          /\ i < j
          /\ SpriteName(i) \notin ewritten
          /\ SpriteName(j) \in ewritten

\* C3 (as stated): the Extractor fails only when the sheet does not exist or
\* is not a decodable image.
C3_FailsOnlyUnreadable ==
    epc = "failed" => ~(SheetPath \in DOMAIN fs /\ fs[SheetPath].ok)

\* C3 (amended): for a sheet that decodes to three or four channels the mask is
\* the 4th channel when there is one and the grayscale conversion otherwise,
\* and the run does not fail; the run fails, with no sprite written and no
\* summary printed, exactly when the sheet is missing, undecodable or grayscale.
C3_MaskAndFailure ==
    LET decodable == SheetPath \in DOMAIN fs /\ fs[SheetPath].ok
        colour    == decodable /\ fs[SheetPath].mode \in {"RGB", "RGBA"}
    IN  /\ Extracting =>
              /\ colour
              /\ ei <= Len(contours)
              /\ \A s \in Slots :
                    alpha[s] = IF Sheet.mode = "RGBA" THEN Sheet.ink[s].a
                               ELSE Gray(Sheet.ink[s])
              /\ alpha[0] = 0
        /\ epc = "failed" => ~colour /\ ewritten = {} /\ ereport = -1
        /\ epc # "idle" /\ ~colour => epc = "failed"

\* C3 witness: a run on an RGBA sheet whose inked place has grayscale 255 but
\* alpha 2 gets through with the mask 2 there
C3_Witness ==
    /\ epc = "done"
    /\ Sheet.mode = "RGBA"
    /\ \E s \in Slots : Sheet.ink[s] = Dim /\ alpha[s] = 2

\* C4: the reported count is the number of contours found, skipped ones
\* included, so it is >= the number of files written by the run; a sheet with
\* no visible pixel gives no file and the report 0.  Nothing is reported
\* before the run is through.
C4_SummaryCount ==
    /\ epc = "done" =>
          /\ ereport = Len(contours)
          /\ ereport = Cardinality({s \in Slots : thresh[s] = 255})
          /\ ereport >= Cardinality(ewritten)
          /\ (\A s \in Regions : alpha[s] = 0) => ewritten = {} /\ ereport = 0
    /\ epc # "done" => ereport = -1

\* C4 witness: a finished run that reports more contours than it saved files
C4_Witness ==
    /\ epc = "done"
    /\ ewritten # {}
    /\ ereport > Cardinality(ewritten)

\* the sprite a Normalizer run read under a name, and the canvas it saved
InFile(n)  == fs[<<"sprites_extracted", n>>]
OutFile(n) == fs[<<"sprites_centered", n>>]

\* C5: the scaled size of a w x h sprite is (max(1, floor(w/4)),
\* max(1, floor(h/4))), and each canvas dimension is the smallest multiple of
\* 32 that is >= the scaled dimension: divisible by 32, >= it, < it + 32, and
\* equal to it when it is a multiple of 32 already.
C5_CanvasSize ==
    \A n \in nwritten :
        LET sw == OutFile(n).box[3]
            sh == OutFile(n).box[4]
            cw == OutFile(n).w
            ch == OutFile(n).h
            Quarter(d, q) == IF d < 4 THEN q = 1 ELSE 4 * q <= d /\ d < 4 * q + 4
            Padded(c, q)  == /\ c % 32 = 0
                             /\ c >= q
                             /\ c < q + 32
                             /\ q % 32 = 0 => c = q
        IN  /\ Quarter(InFile(n).w, sw) /\ Quarter(InFile(n).h, sh)
            /\ Padded(cw, sw) /\ Padded(ch, sh)

\* C5 witness: a saved canvas whose scaled width is a multiple of 32 already
\* and whose scaled height was lifted from 0 to 1
C5_Witness ==
    \E n \in nwritten :
        /\ InFile(n).w = 128 /\ OutFile(n).w = 32
        /\ InFile(n).h = 3 /\ OutFile(n).box[4] = 1 /\ OutFile(n).h = 32

\* C6 (as stated): the paste offset is 0 exactly when the resized dimension is
\* a multiple of 32.
C6_ZeroOffsetIffMultiple ==
    \A n \in nwritten :
        /\ OutFile(n).box[1] = 0 <=> OutFile(n).box[3] % 32 = 0
        /\ OutFile(n).box[2] = 0 <=> OutFile(n).box[4] % 32 = 0

\* C6 (amended): on each axis the paste offset is floor((canvas - resized)/2),
\* it is >= 0, offset + resized <= canvas, and offset + resized + offset is
\* canvas or canvas - 1; the offset is 0 exactly when the resized dimension is
\* a multiple of 32 or one less than a multiple of 32; a 64 x 64 sprite is
\* pasted as 16 x 16 at offset (8, 8) of a 32 x 32 canvas.
C6_Centering ==
    \A n \in nwritten :
        LET Centred(o, q, c) == /\ 2 * o <= c - q /\ c - q < 2 * o + 2
                                /\ o >= 0
                                /\ o + q <= c
                                /\ o + q + o \in {c, c - 1}
                                /\ o = 0 <=> q % 32 \in {0, 31}
        IN  /\ Centred(OutFile(n).box[1], OutFile(n).box[3], OutFile(n).w)
            /\ Centred(OutFile(n).box[2], OutFile(n).box[4], OutFile(n).h)
            /\ InFile(n).w = 64 /\ InFile(n).h = 64 =>
                  /\ OutFile(n).box = <<8, 8, 16, 16>>
                  /\ OutFile(n).w = 32 /\ OutFile(n).h = 32

\* C6 witness: a saved canvas with an odd difference on the x axis (one spare
\* pixel on the right) and offset 0 on the y axis for a resized height of 31
C6_Witness ==
    \E n \in nwritten :
        /\ OutFile(n).box[3] = 15 /\ OutFile(n).box[1] = 8 /\ OutFile(n).w = 32
        /\ OutFile(n).box[4] = 31 /\ OutFile(n).box[2] = 0 /\ OutFile(n).h = 32

\* the ".png" entries of the input directory
PngEntries == {n \in Entries(fs, "sprites_extracted") : IsPng(n)}

\* C7: after a successful run every ".png" entry of the input directory has a
\* file of the same name written to the output directory by this run, and no
\* run writes a file for an entry that does not end with ".png"; whatever the
\* order of the listing.
C7_FileMapping ==
    /\ npc = "done" =>
          /\ nwritten = PngEntries
          /\ \A n \in PngEntries :
                /\ <<"sprites_centered", n>> \in DOMAIN fs
                /\ OutFile(n) = Normalize(InFile(n))
    /\ \A n \in nwritten : n \in PngEntries

\* C7 witness: a successful run over a directory with a ".png" entry and
\* another entry
C7_Witness ==
    /\ npc = "done"
    /\ nwritten # {}
    /\ \E n \in Entries(fs, "sprites_extracted") : ~IsPng(n)

C9_FailFast ==
    /\ nerr # "FileNotFoundError" =>
          /\ nwritten = {listing[k] : k \in {j \in 1..(ni - 1) : IsPng(listing[j])}}
          /\ \A k \in 1..(ni - 1) : IsPng(listing[k]) => InFile(listing[k]).ok
          /\ \A n \in nwritten : /\ <<"sprites_centered", n>> \in DOMAIN fs
                                 /\ OutFile(n) = Normalize(InFile(n))
    /\ nerr = "UnidentifiedImageError" =>
          /\ npc = "failed"
          /\ ni <= Len(listing)
          /\ ~InFile(listing[ni]).ok
          /\ \A k \in ni..Len(listing) : listing[k] \notin nwritten
    /\ npc = "done" => \A n \in PngEntries : InFile(n).ok
    /\ nmsg <=> npc = "done"

\* C9 witness: a run aborted at an undecodable ".png" entry, after saving a
\* canvas and with an entry still to come
C9_Witness ==
    /\ npc = "failed" /\ nerr = "UnidentifiedImageError"
    /\ nwritten # {}
    /\ ni < Len(listing)
    /\ IsPng(listing[ni + 1])

\* C10: no step of either script deletes a file or changes the sheet; a step
\* changes or creates a file only as the Extractor saving sprite_{i:02d}.png
\* into sprites_extracted/ for the contour i it accepts, or as the Normalizer
\* saving into sprites_centered/ under the name of a ".png" entry of
\* sprites_extracted/.
C10_FrameStep ==
    /\ DOMAIN fs \subseteq DOMAIN fs'
    /\ <<".", input_image_path>> \in DOMAIN fs' <=> <<".", input_image_path>> \in DOMAIN fs
    /\ \A p \in DOMAIN fs' :
          (p \notin DOMAIN fs \/ fs'[p] # fs[p]) =>
              \/ /\ epc = "loop" /\ npc # "loop"
                 /\ ei < Len(contours)
                 /\ SlotBox[contours[ei + 1]][3] >= 10
                 /\ SlotBox[contours[ei + 1]][4] >= 10
                 /\ p = <<"sprites_extracted", SpriteName(ei)>>
              \/ /\ npc = "loop" /\ epc # "loop"
                 /\ p[1] = "sprites_centered"
                 /\ p[2] \in PngEntries

C10_Frame == [][C10_FrameStep]_vars

\* C10 witness: after an Extractor run that saved sprite_01.png next to the
\* files that were there, a Normalizer run has overwritten one old canvas and
\* left the other
C10_Witness ==
    /\ <<"sprites_extracted", SpriteName(1)>> \in DOMAIN fs
    /\ <<"sprites_extracted", <<"b",".","p","n","g">>>> \in DOMAIN fs
    /\ npc = "failed" /\ SpriteName(0) \in nwritten
    /\ fs[<<"sprites_centered", <<"k",".","p","n","g">>>>] = OldCanvas
    /\ fs[<<"sprites_centered", SpriteName(0)>>] # OldCanvas

====
